---- MODULE Spec2Model ----
(***************************************************************************)
(* Model of the debate orchestration in src/src/consensus/main.py:         *)
(* start_debate, run_debate_stream, call_model and the three provider      *)
(* adapters.  One debate invocation is modelled from the request handed    *)
(* to start_debate up to the end (or the abort) of the event stream.       *)
(***************************************************************************)
EXTENDS Integers, Sequences, FiniteSets, TLC

VARIABLES
    request,        \* the DebateRequest
    pc,             \* position of the request handler / the stream generator
    round_num,      \* loop variable of run_debate_stream (0 before round 1)
    all_responses,  \* {model_id: [round1_response, round2_response, ...]}
    tasks,          \* this round's (model_id, call) list, in request order
    inflight,       \* positions of tasks whose call_model has not returned
    results,        \* per task position, the value its call returned
    emitted,        \* number of this round's results already streamed
    events,         \* the stream produced so far
    consensus,      \* the result of analyze_consensus, once computed
    calls,          \* every call_model invocation so far, in start order
    overtaken,      \* in the round being gathered, some call returned while
                    \* a call at an earlier position was still in flight
    error           \* the exception that ended the handler, or "none"

vars == <<request, pc, round_num, all_responses, tasks, inflight, results,
          emitted, events, consensus, calls, overtaken, error>>

----------------------------------------------------------------------------
(* Bounds of the explored inputs *)

MaxModels == 2
MaxRounds == 3
\* Most provider calls the rounds of one explored debate make.
MaxCalls == 6
\* Most provider calls of one explored debate that fail.
MaxFailures == 2
\* Largest set whose every iteration order is explored.
MaxPermuted == 3

----------------------------------------------------------------------------
(* Static configuration *)

MODELS ==
    [claude |-> [name |-> "Claude", color |-> "#D97706"],
     gpt    |-> [name |-> "GPT-4o", color |-> "#10B981"],
     gemini |-> [name |-> "Gemini", color |-> "#3B82F6"]]

Catalog == DOMAIN MODELS

required_keys == [claude |-> "anthropic", gpt |-> "openai", gemini |-> "google"]

KeyNames == {"anthropic", "openai", "google"}

\* Identifiers a request may name: the catalog and one identifier outside it.
RequestIds == Catalog \cup {"grok"}

SeqsUpTo(S, n) == UNION {[1..k -> S] : k \in 0..n}

Range(s) == {s[i] : i \in DOMAIN s}

\* Credential mappings: every key set, each to a secret of its own, or one
\* with a key set, a key empty and a key absent.
ApiKeyMaps ==
    {[k \in KeyNames |-> "sk-" \o k],
     [k \in {"anthropic", "openai"} |->
         IF k = "openai" THEN "" ELSE "sk-" \o k]}

Requests ==
    {req \in [context : {"ctx"}, question : {"q"}, api_keys : ApiKeyMaps,
              models : SeqsUpTo(RequestIds, MaxModels), rounds : 0..MaxRounds] :
        Len(req.models) * req.rounds <= MaxCalls}

\* dict.get(key, default)
Get(d, k, default) == IF k \in DOMAIN d THEN d[k] ELSE default

----------------------------------------------------------------------------
(* Provider adapters *)

\* What the HTTP exchange of one adapter call can come to.
\* A text is modelled as the sequence of its whitespace-separated words.
HttpOutcomes ==
    {[kind |-> "ok",        code |-> 200, text |-> <<"answer">>],
     [kind |-> "status",    code |-> 500, text |-> <<"overloaded">>],
     [kind |-> "timeout",   code |-> 0,   text |-> <<>>],
     [kind |-> "exception", code |-> 0,   text |-> <<"refused">>]}

Digit(d) == CASE d = 0 -> "0" [] d = 1 -> "1" [] d = 2 -> "2" [] d = 3 -> "3"
              [] d = 4 -> "4" [] d = 5 -> "5" [] d = 6 -> "6" [] d = 7 -> "7"
              [] d = 8 -> "8" [] d = 9 -> "9"

RECURSIVE IntToStr(_)
IntToStr(n) == IF n < 10 THEN Digit(n) ELSE IntToStr(n \div 10) \o Digit(n % 10)

\* Mutant: the timeout clause is missing, so a timeout falls to the generic
\* handler.
adapter_no_timeout(label, o) ==
    CASE o.kind \in {"timeout", "exception"} ->
            <<"Error", "calling", label \o ":">> \o o.text
      [] o.code # 200         ->
            <<label, "API", "Error", "(" \o IntToStr(o.code) \o "):">> \o o.text
      [] OTHER                -> o.text

\* The body shared by call_claude, call_gpt and call_gemini; label is the
\* provider name the adapter writes into its error texts.
adapter(label, o) ==
    CASE o.kind = "timeout"   ->
            <<"Error:", label, "API", "request", "timed", "out">>
      [] o.kind = "exception" ->
            <<"Error", "calling", label \o ":">> \o o.text
      [] o.code # 200         ->
            <<label, "API", "Error", "(" \o IntToStr(o.code) \o "):">> \o o.text
      [] OTHER                -> o.text

call_claude(api_key, o) == adapter("Claude", o)
call_gpt(api_key, o)    == adapter("GPT", o)
call_gemini(api_key, o) == adapter("Gemini", o)

\* Mutant: call_gemini is handed the OpenAI credential.
route_wrong_key(model_id, api_keys) ==
    IF model_id = "claude"
    THEN [adapter |-> "call_claude", api_key |-> Get(api_keys, "anthropic", "")]
    ELSE IF model_id = "gpt"
    THEN [adapter |-> "call_gpt", api_key |-> Get(api_keys, "openai", "")]
    ELSE IF model_id = "gemini"
    THEN [adapter |-> "call_gemini", api_key |-> Get(api_keys, "openai", "")]
    ELSE [adapter |-> "none", api_key |-> ""]

\* The branch call_model takes for model_id: the adapter it calls and the
\* credential it hands to it, or no adapter.
route(model_id, api_keys) ==
    IF model_id = "claude"
    THEN [adapter |-> "call_claude", api_key |-> Get(api_keys, "anthropic", "")]
    ELSE IF model_id = "gpt"
    THEN [adapter |-> "call_gpt", api_key |-> Get(api_keys, "openai", "")]
    ELSE IF model_id = "gemini"
    THEN [adapter |-> "call_gemini", api_key |-> Get(api_keys, "google", "")]
    ELSE [adapter |-> "none", api_key |-> ""]

\* Route to the adapter of model_id; o is the outcome of the HTTP exchange
\* the adapter would make.
call_model(model_id, api_keys, o) ==
    LET r == route(model_id, api_keys)
    IN  CASE r.adapter = "call_claude" -> call_claude(r.api_key, o)
          [] r.adapter = "call_gpt"    -> call_gpt(r.api_key, o)
          [] r.adapter = "call_gemini" -> call_gemini(r.api_key, o)
          [] OTHER -> <<"Unknown", "model:", model_id>>

----------------------------------------------------------------------------
(* start_debate *)

Init ==
    /\ request \in Requests
    /\ pc = "request"
    /\ round_num = 0
    /\ all_responses = <<>>
    /\ tasks = <<>>
    /\ inflight = {}
    /\ results = <<>>
    /\ emitted = 0
    /\ events = <<>>
    /\ consensus = "none"
    /\ calls = <<>>
    /\ overtaken = FALSE
    /\ error = "none"

\* Mutant: only an absent key is refused, an empty one passes.
MissingKey_absent_only(req) ==
    \E i \in DOMAIN req.models :
        /\ req.models[i] \in DOMAIN required_keys
        /\ required_keys[req.models[i]] \notin DOMAIN req.api_keys

\* The credential check of start_debate: some requested model needs a key
\* that is absent or empty.
MissingKey(req) ==
    \E i \in DOMAIN req.models :
        /\ req.models[i] \in DOMAIN required_keys
        /\ Get(req.api_keys, required_keys[req.models[i]], "") = ""

Reject ==
    /\ pc = "request"
    /\ MissingKey(request)
    /\ pc' = "rejected"
    /\ error' = "HTTPException(400)"
    /\ UNCHANGED <<request, round_num, all_responses, tasks, inflight,
                   results, emitted, events, consensus, calls, overtaken>>

\* The request passes; the stream generator starts and sets up the history.
Accept ==
    /\ pc = "request"
    /\ ~MissingKey(request)
    /\ pc' = "loop"
    /\ all_responses' = [m \in Range(request.models) |-> <<>>]
    /\ UNCHANGED <<request, round_num, tasks, inflight, results, emitted,
                   events, consensus, calls, overtaken, error>>

----------------------------------------------------------------------------
(* run_debate_stream: the rounds *)

Last(s) == s[Len(s)]

NumModels == Len(request.models)

\* Positions of models at which an identifier occurs for the first time.
FirstAt(models) ==
    {i \in DOMAIN models : \A j \in 1..(i - 1) : models[j] # models[i]}

\* dict keys in insertion order: the models in order of first occurrence.
dict_keys(models) ==
    [n \in 1..Cardinality(FirstAt(models)) |->
        models[CHOOSE i \in FirstAt(models) :
                  Cardinality({j \in FirstAt(models) : j <= i}) = n]]

SYSTEM_FIRST    == "multi-AI debate: give your honest, well-reasoned response"
SYSTEM_REVISION == "multi-AI debate: note agreement, critique, revise or defend"
SYSTEM_SUMMARY  == "neutral analyst summarizing a debate between AI models"

\* The other models whose latest response goes into model_id's prompt.
others_listed(req, hist, model_id) ==
    SelectSeq(req.models, LAMBDA o : o # model_id /\ hist[o] # <<>>)

\* Line 279 looks every listed model up in MODELS.
prompt_raises(req, hist, rnd) ==
    /\ rnd > 1
    /\ \E i \in DOMAIN req.models :
          \E j \in DOMAIN others_listed(req, hist, req.models[i]) :
              others_listed(req, hist, req.models[i])[j] \notin Catalog

\* Mutant: the first response of each other model instead of its latest.
other_responses_stale(req, hist, model_id) ==
    LET ids == others_listed(req, hist, model_id)
    IN  [j \in DOMAIN ids |->
            [label |-> MODELS[ids[j]].name, text |-> hist[ids[j]][1]]]

other_responses(req, hist, model_id) ==
    LET ids == others_listed(req, hist, model_id)
    IN  [j \in DOMAIN ids |->
            [label |-> MODELS[ids[j]].name, text |-> Last(hist[ids[j]])]]

\* Mutant: the revision prompt in every round, the first included.
build_messages_revision(req, hist, model_id, rnd) ==
    [context  |-> req.context,
     question |-> req.question,
     previous |-> IF hist[model_id] # <<>> THEN hist[model_id][Len(hist[model_id])]
                  ELSE <<"N/A">>,
     others   |-> [j \in DOMAIN others_listed(req, hist, model_id) |->
                     [label |-> MODELS[others_listed(req, hist, model_id)[j]].name,
                      text  |-> hist[others_listed(req, hist, model_id)[j]]
                                    [Len(hist[others_listed(req, hist, model_id)[j]])]]]]

\* The user turn of the prompt for model_id in round rnd.
build_messages(req, hist, model_id, rnd) ==
    IF rnd = 1
    THEN [context |-> req.context, question |-> req.question]
    ELSE [context  |-> req.context,
          question |-> req.question,
          previous |-> IF hist[model_id] # <<>> THEN Last(hist[model_id])
                       ELSE <<"N/A">>,
          others   |-> other_responses(req, hist, model_id)]

build_system(rnd) == IF rnd = 1 THEN SYSTEM_FIRST ELSE SYSTEM_REVISION

\* Mutant: one task per key of the history dict instead of one per entry of
\* request.models.
build_tasks_per_key(req, hist, rnd) ==
    [i \in DOMAIN dict_keys(req.models) |->
        [model_id |-> dict_keys(req.models)[i],
         messages |-> build_messages(req, hist, dict_keys(req.models)[i], rnd),
         system   |-> build_system(rnd)]]

\* The task list of round rnd, one entry per position of request.models.
build_tasks(req, hist, rnd) ==
    [i \in DOMAIN req.models |->
        [model_id |-> req.models[i],
         messages |-> build_messages(req, hist, req.models[i], rnd),
         system   |-> build_system(rnd)]]

\* Log entry of a call_model invocation.
CallEntry(rnd, pos, task) ==
    [round |-> rnd, pos |-> pos, model_id |-> task.model_id,
     messages |-> task.messages, system |-> task.system,
     adapter |-> "none", api_key |-> "",
     outcome |-> "pending", value |-> <<>>]

\* Top of the loop body up to the await of gather: prompts are built and
\* all calls of the round are handed to gather at once.
StartRound ==
    /\ pc = "loop"
    /\ round_num < request.rounds
    /\ round_num' = round_num + 1
    /\ IF prompt_raises(request, all_responses, round_num + 1)
       THEN /\ pc' = "crashed"
            /\ error' = "KeyError"
            /\ UNCHANGED <<tasks, inflight, results, emitted, calls, overtaken>>
       ELSE LET ts == build_tasks(request, all_responses, round_num + 1)
            IN  /\ tasks' = ts
                /\ inflight' = DOMAIN ts
                /\ results' = [i \in DOMAIN ts |-> <<>>]
                /\ emitted' = 0
                /\ calls' = calls \o
                      [i \in DOMAIN ts |-> CallEntry(round_num + 1, i, ts[i])]
                /\ overtaken' = FALSE
                /\ pc' = IF Len(ts) = 0 THEN "loop" ELSE "gather"
                /\ error' = error
    /\ UNCHANGED <<request, all_responses, events, consensus>>

FailureKinds == {"status", "timeout", "exception"}

\* The outcomes the next HTTP exchange can have within the explored bound.
NextOutcomes ==
    IF Cardinality({j \in DOMAIN calls : calls[j].outcome \in FailureKinds})
          < MaxFailures
    THEN HttpOutcomes
    ELSE {o \in HttpOutcomes : o.kind \notin FailureKinds}

\* Index in calls of the call at position i of the current round.
CallIndex(i) == Len(calls) - Len(tasks) + i

\* Mutant: values are kept in the order the calls return (as_completed).
completion_store(res, i, v) ==
    [res EXCEPT ![Len(res) - Cardinality(inflight) + 1] = v]

\* gather keeps the value of the call at position i at position i of its
\* result list, whenever that call returns.
gather_store(res, i, v) == [res EXCEPT ![i] = v]

\* A text an adapter returns for a failed exchange.
IsErrorText(v) ==
    /\ v # <<>>
    /\ \/ v[1] \in {"Error:", "Error"}
       \/ Len(v) >= 3 /\ v[2] = "API" /\ v[3] = "Error"

\* Mutant: a call that returns an error text takes its siblings down with
\* it.
gather_pending_cancel(pending, i, v) ==
    IF IsErrorText(v) THEN {} ELSE pending \ {i}

\* Mutant: a call that returns an error text is issued again.
gather_pending_retry(pending, i, v) ==
    IF IsErrorText(v) THEN pending ELSE pending \ {i}

\* The calls gather still waits for after the call at position i returned
\* v: the others are left running whatever v is, and i is done.
gather_pending(pending, i, v) == pending \ {i}

\* One call of the round returns, in any order among those in flight.
CallReturn(i) ==
    /\ pc = "gather"
    /\ i \in inflight
    /\ \E o \in NextOutcomes :
          LET v == call_model(tasks[i].model_id, request.api_keys, o)
          IN  /\ results' = gather_store(results, i, v)
              /\ inflight' = gather_pending(inflight, i, v)
              /\ calls' = [calls EXCEPT ![CallIndex(i)] =
                             [@ EXCEPT !.value = v,
                                       !.adapter =
                                           route(tasks[i].model_id,
                                                 request.api_keys).adapter,
                                       !.api_key =
                                           route(tasks[i].model_id,
                                                 request.api_keys).api_key,
                                       !.outcome =
                                           IF tasks[i].model_id \in Catalog
                                           THEN o.kind ELSE "unknown"]]
    /\ overtaken' = (overtaken \/ \E j \in inflight : j < i)
    /\ UNCHANGED <<request, pc, round_num, all_responses, tasks, emitted,
                   events, consensus, error>>

\* Mutant: the wait ends as soon as one call has returned.
gather_first_done(pending) == pending # DOMAIN tasks

\* asyncio.gather returns once every call handed to it has returned.
gather_done(pending) == pending = {}

RoundEvent(rnd, model_id, response) ==
    [type        |-> "response",
     round       |-> rnd,
     model       |-> model_id,
     model_name  |-> MODELS[model_id].name,
     color       |-> MODELS[model_id].color,
     response    |-> response,
     is_revision |-> rnd > 1]

\* Mutant: the loop is left after its first iteration.
round_emitted_early(n, ts) == n >= 1

\* The loop over zip(tasks, results) ends after the last pair.
round_emitted(n, ts) == n = Len(ts)

\* One iteration of the loop over zip(tasks, results): record the response
\* and yield its event.
Emit ==
    /\ pc = "gather"
    /\ gather_done(inflight)
    /\ emitted < Len(tasks)
    /\ LET i == emitted + 1
           model_id == tasks[i].model_id
       IN  /\ all_responses' =
                 [all_responses EXCEPT ![model_id] = Append(@, results[i])]
           /\ IF model_id \in Catalog
              THEN /\ events' = Append(events,
                                       RoundEvent(round_num, model_id, results[i]))
                   /\ emitted' = i
                   /\ pc' = IF round_emitted(i, tasks) THEN "loop" ELSE "gather"
                   /\ overtaken' = (overtaken /\ ~round_emitted(i, tasks))
                   /\ error' = error
              ELSE /\ pc' = "crashed"
                   /\ error' = "KeyError"
                   /\ UNCHANGED <<events, emitted, overtaken>>
    /\ UNCHANGED <<request, round_num, tasks, inflight, results, consensus,
                   calls>>

----------------------------------------------------------------------------
(* analyze_consensus *)

stop_words ==
    {"the", "a", "an", "is", "are", "was", "were", "be", "been",
     "being", "have", "has", "had", "do", "does", "did", "will",
     "would", "could", "should", "may", "might", "must", "shall",
     "can", "of", "to", "in", "for", "on", "with", "at", "by",
     "from", "as", "into", "through", "during", "before", "after",
     "above", "below", "between", "under", "again", "further",
     "then", "once", "here", "there", "when", "where", "why",
     "how", "all", "each", "few", "more", "most", "other", "some",
     "such", "no", "nor", "not", "only", "own", "same", "so",
     "than", "too", "very", "just", "and", "but", "if", "or",
     "because", "until", "while", "although", "this", "that",
     "these", "those", "i", "you", "he", "she", "it", "we", "they",
     "what", "which", "who", "whom", "its", "his", "her", "their",
     "our", "your", "my", "-", ".", ",", ":", ";", "!", "?"}

ThemeCap == 10

\* str.lower() on the words that occur in the modelled texts.
lower(w) ==
    CASE w = "Error:"  -> "error:"
      [] w = "Error"   -> "error"
      [] w = "API"     -> "api"
      [] w = "Claude"  -> "claude"
      [] w = "Claude:" -> "claude:"
      [] w = "GPT"     -> "gpt"
      [] w = "GPT:"    -> "gpt:"
      [] w = "Gemini"  -> "gemini"
      [] w = "Gemini:" -> "gemini:"
      [] w = "Unknown" -> "unknown"
      [] w = "The"     -> "the"
      [] w = "A"       -> "a"
      [] w = "Consciousness" -> "consciousness"
      [] OTHER         -> w

\* Characters of the first n words of t.
RECURSIVE words_len(_, _)
words_len(t, n) == IF n = 0 THEN 0 ELSE Len(t[n]) + words_len(t, n - 1)

\* len() of a text: its words and the single spaces between them.
text_len(t) == IF t = <<>> THEN 0 ELSE words_len(t, Len(t)) + Len(t) - 1

\* set(resp.lower().split())
response_words(resp) == {lower(resp[i]) : i \in DOMAIN resp}

\* set.intersection over the word sets of all responses.
common_words(responses) ==
    {w \in response_words(responses[CHOOSE m \in DOMAIN responses : TRUE]) :
        \A m \in DOMAIN responses : w \in response_words(responses[m])}

\* Mutant: the length filter of line 235 is missing.
meaningful_common_any_length(responses) ==
    IF Cardinality(DOMAIN responses) > 1
    THEN common_words(responses) \ stop_words
    ELSE {}

meaningful_common(responses) ==
    IF Cardinality(DOMAIN responses) > 1
    THEN {w \in common_words(responses) \ stop_words : Len(w) > 3}
    ELSE {}

\* One enumeration of the elements of s.
RECURSIVE seq_of(_)
seq_of(s) ==
    IF s = {} THEN <<>>
    ELSE LET x == CHOOSE x \in s : TRUE IN <<x>> \o seq_of(s \ {x})

\* The orders in which iterating the set s can yield its elements.  The order
\* follows the string hashes, which differ from process to process: every
\* order for a set of at most MaxPermuted elements, and for a larger set the
\* rotations of one enumeration.
set_orders(s) ==
    IF Cardinality(s) <= MaxPermuted
    THEN {l \in [1..Cardinality(s) -> s] :
             \A i, j \in DOMAIN l : i # j => l[i] # l[j]}
    ELSE {[i \in 1..Cardinality(s) |->
              seq_of(s)[((i + r - 1) % Cardinality(s)) + 1]]
             : r \in 0..(Cardinality(s) - 1)}

\* Mutant: the slice is one short, [:n-1].
list_head_short(s, n) ==
    UNION {set_orders(t) :
           t \in {u \in SUBSET s :
                     Cardinality(u) = IF Cardinality(s) < n - 1
                                      THEN Cardinality(s) ELSE n - 1}}

\* list(s)[:n]: the first min(n, |s|) elements in iteration order, so every
\* choice of that many elements of s can come out.
list_head(s, n) ==
    UNION {set_orders(t) :
           t \in {u \in SUBSET s :
                     Cardinality(u) = IF Cardinality(s) < n
                                      THEN Cardinality(s) ELSE n}}

\* Mutant: models_compared is listed from a set of the keys, in the order of
\* its iteration.
analyze_consensus_set_keys(responses, keys) ==
    UNION {{[models_compared  |-> compared,
             common_themes    |-> themes,
             response_lengths |->
                 [m \in DOMAIN responses |-> text_len(responses[m])]]
               : themes \in list_head(meaningful, ThemeCap),
                 compared \in set_orders(DOMAIN responses)}
           : meaningful \in {meaningful_common(responses)}}

\* The results analyze_consensus can return for responses, a dict whose keys
\* were inserted in the order keys.
analyze_consensus(responses, keys) ==
    UNION {{[models_compared  |-> keys,
             common_themes    |-> themes,
             response_lengths |->
                 [m \in DOMAIN responses |-> text_len(responses[m])]]
               : themes \in list_head(meaningful, ThemeCap)}
           : meaningful \in {meaningful_common(responses)}}

----------------------------------------------------------------------------
(* run_debate_stream: after the rounds *)

final_raises(req, hist) ==
    \/ \E m \in DOMAIN hist : hist[m] = <<>>        \* responses[-1]
    \/ req.models = <<>>                            \* request.models[0]
    \/ \E m \in DOMAIN hist : m \notin Catalog      \* MODELS[model_id]

final_error(req, hist) ==
    IF (\E m \in DOMAIN hist : hist[m] = <<>>) \/ req.models = <<>>
    THEN "IndexError" ELSE "KeyError"

final_responses(hist) == [m \in DOMAIN hist |-> Last(hist[m])]

\* Mutant: the last configured model writes the summary.
summary_model_last(req) == req.models[Len(req.models)]

\* summary_model = request.models[0]
summary_model(req) == req.models[1]

summary_prompt(req, final) ==
    LET keys == dict_keys(req.models)
    IN  [question  |-> req.question,
         responses |-> [j \in DOMAIN keys |->
                          [label |-> MODELS[keys[j]].name,
                           text  |-> final[keys[j]]]]]

\* The rounds are over: analyse the final responses and start the summary
\* call.
Finalize ==
    /\ pc = "loop"
    /\ round_num >= request.rounds
    /\ IF final_raises(request, all_responses)
       THEN /\ pc' = "crashed"
            /\ error' = final_error(request, all_responses)
            /\ UNCHANGED <<consensus, calls>>
       ELSE \E final \in {final_responses(all_responses)} :
                /\ consensus' \in
                      analyze_consensus(final, dict_keys(request.models))
                /\ calls' = Append(calls,
                      CallEntry(0, 0,
                          [model_id |-> summary_model(request),
                           messages |-> summary_prompt(request, final),
                           system   |-> SYSTEM_SUMMARY]))
                /\ pc' = "summary"
                /\ error' = error
    /\ UNCHANGED <<request, round_num, all_responses, tasks, inflight,
                   results, emitted, events, overtaken>>

ConsensusEvent(summary, analysis) ==
    [type |-> "consensus", summary |-> summary, analysis |-> analysis]

DoneEvent == [type |-> "done"]

\* The summary call returns and the consensus event is yielded.
SummaryReturn ==
    /\ pc = "summary"
    /\ \E o \in NextOutcomes :
          LET v == call_model(summary_model(request), request.api_keys, o)
          IN  /\ events' = Append(events, ConsensusEvent(v, consensus))
              /\ calls' = [calls EXCEPT ![Len(calls)] =
                             [@ EXCEPT !.value = v,
                                       !.adapter =
                                           route(summary_model(request),
                                                 request.api_keys).adapter,
                                       !.api_key =
                                           route(summary_model(request),
                                                 request.api_keys).api_key,
                                       !.outcome = o.kind]]
    /\ pc' = "consensus_sent"
    /\ UNCHANGED <<request, round_num, all_responses, tasks, inflight,
                   results, emitted, consensus, overtaken, error>>

EmitDone ==
    /\ pc = "consensus_sent"
    /\ events' = Append(events, DoneEvent)
    /\ pc' = "done"
    /\ UNCHANGED <<request, round_num, all_responses, tasks, inflight,
                   results, emitted, consensus, calls, overtaken, error>>

Next ==
    \/ Reject
    \/ Accept
    \/ StartRound
    \/ \E i \in inflight : CallReturn(i)
    \/ Emit
    \/ Finalize
    \/ SummaryReturn
    \/ EmitDone

Spec == Init /\ [][Next]_vars

----------------------------------------------------------------------------
(* The debate with adapters that may raise: the handlers of an adapter     *)
(* catch Exception only, and gather is called without return_exceptions    *)

\* Mutant: gather collects the exception as the result of the call
\* (return_exceptions=True) and the round goes on.
gather_on_raise_collect(pending) == "gather"

\* Where the generator is after a call handed to gather raised: gather
\* raises in turn, nothing in run_debate_stream catches it.
gather_on_raise(pending) == "crashed"

\* The adapter called at position i raises instead of returning a text.
\* The calls still in flight are left to themselves; nothing awaits them any
\* more.
CallRaise(i) ==
    /\ pc = "gather"
    /\ i \in inflight
    /\ route(tasks[i].model_id, request.api_keys).adapter # "none"
    /\ inflight' = inflight \ {i}
    /\ calls' = [calls EXCEPT ![CallIndex(i)] =
                    [@ EXCEPT !.adapter =
                                  route(tasks[i].model_id,
                                        request.api_keys).adapter,
                              !.api_key =
                                  route(tasks[i].model_id,
                                        request.api_keys).api_key,
                              !.outcome = "raised"]]
    /\ pc' = gather_on_raise(inflight)
    /\ error' = "AdapterRaised"
    /\ UNCHANGED <<request, round_num, all_responses, tasks, results,
                   emitted, events, consensus, overtaken>>

NextRaise ==
    \/ Next
    \/ \E i \in inflight : CallRaise(i)

SpecRaise == Init /\ [][NextRaise]_vars

----------------------------------------------------------------------------
(* analyze_consensus on its own: final_responses and analyze_consensus     *)
(* applied to histories whose last entries are drawn from a set of texts   *)

TextCat     == <<"The", "cat", "sat">>
TextThere   == <<"A", "cat", "sat", "there">>
TextAware   == <<"consciousness", "is", "subjective", "awareness", "there">>
TextCapital == <<"Consciousness", "is", "awareness", "there">>
TextEleven  == <<"consciousness", "awareness", "experience", "subjective",
                 "brain", "mind", "qualia", "neural", "emerges", "physical",
                 "theory">>
TextTen     == <<"there", "physical", "emerges", "neural", "qualia", "mind",
                 "brain", "subjective", "experience", "awareness",
                 "consciousness">>

AnalyzeTexts ==
    {TextCat, TextThere, TextAware, TextCapital, TextEleven, TextTen}

\* The dicts handed to analyze_consensus: up to MaxModels catalog
\* participants, in any insertion order, each with one of the texts.
InitAnalyze ==
    /\ request \in
          {req \in [context : {"ctx"}, question : {"q"},
                    api_keys : {[k \in KeyNames |-> "sk-" \o k]},
                    models : SeqsUpTo(Catalog, MaxModels), rounds : {1}] :
              \A i, j \in DOMAIN req.models :
                  i # j => req.models[i] # req.models[j]}
    /\ pc = "analyze"
    /\ round_num = 1
    /\ all_responses \in [Range(request.models) ->
                             {<<t>> : t \in AnalyzeTexts}]
    /\ tasks = <<>>
    /\ inflight = {}
    /\ results = <<>>
    /\ emitted = 0
    /\ events = <<>>
    /\ consensus = "none"
    /\ calls = <<>>
    /\ overtaken = FALSE
    /\ error = "none"

Analyze ==
    /\ pc = "analyze"
    /\ consensus' \in analyze_consensus(final_responses(all_responses),
                                         dict_keys(request.models))
    /\ pc' = "analyzed"
    /\ UNCHANGED <<request, round_num, all_responses, tasks, inflight,
                   results, emitted, events, calls, overtaken, error>>

NextAnalyze == Analyze

SpecAnalyze == InitAnalyze /\ [][NextAnalyze]_vars

----------------------------------------------------------------------------
(* Vocabulary of the properties *)

\* start_debate let the request through and the stream generator runs.
Accepted == pc \notin {"request", "rejected"}

InCatalog == Range(request.models) \subseteq Catalog

Distinct(s) == \A i, j \in DOMAIN s : i # j => s[i] # s[j]

\* P >= 1 participants, all in the catalog, and R >= 1 rounds.
ValidRequest == NumModels >= 1 /\ InCatalog /\ request.rounds >= 1

\* No step of the handler is possible any more.
Stopped == ~ENABLED Next

IsRoundEvent(e) == e.type = "response"

\* The log entry of the call of round r at position i of request.models.
CallAt(r, i) == calls[(r - 1) * NumModels + i]

\* Number of RoundEvents of round r in the stream so far.
RoundEventCount(r) ==
    Cardinality({k \in DOMAIN events :
                    IsRoundEvent(events[k]) /\ events[k].round = r})

\* The error texts of the adapters, written out.
ProviderLabel(model_id) ==
    CASE model_id = "claude" -> "Claude"
      [] model_id = "gpt"    -> "GPT"
      [] model_id = "gemini" -> "Gemini"

ErrorText(model_id, kind) ==
    CASE kind = "timeout" ->
            <<"Error:", ProviderLabel(model_id), "API", "request", "timed", "out">>
      [] kind = "status" ->
            <<ProviderLabel(model_id), "API", "Error", "(500):", "overloaded">>
      [] kind = "exception" ->
            <<"Error", "calling", ProviderLabel(model_id) \o ":", "refused">>

DisplayName(model_id) ==
    CASE model_id = "claude" -> "Claude"
      [] model_id = "gpt"    -> "GPT-4o"
      [] model_id = "gemini" -> "Gemini"

----------------------------------------------------------------------------
(* C1 *)

\* C1: for a request with P >= 1 catalog participants and R >= 1 rounds the
\* stream is P*R RoundEvents, then one ConsensusEvent, then one DoneEvent and
\* nothing else: the generator never aborts, it cannot stop before the
\* DoneEvent, every event sits at the place this shape gives it, and the
\* finished stream has exactly P*R + 2 events.
C1_StreamShape ==
    (Accepted /\ ValidRequest) =>
        /\ pc # "crashed"
        /\ (Stopped => pc = "done")
        /\ Len(events) <= NumModels * request.rounds + 2
        /\ \A k \in DOMAIN events :
              events[k].type =
                  IF k <= NumModels * request.rounds THEN "response"
                  ELSE IF k = NumModels * request.rounds + 1 THEN "consensus"
                  ELSE "done"
        /\ (pc = "done" => Len(events) = NumModels * request.rounds + 2)

C1_Witness ==
    /\ pc = "done"
    /\ ValidRequest
    /\ NumModels >= 2
    /\ request.rounds >= 2
    /\ Len(events) = NumModels * request.rounds + 2
    /\ events[Len(events)] = DoneEvent

----------------------------------------------------------------------------
(* C2 *)

\* C2: whichever provider calls of the rounds fail (timeout, non-200 status,
\* other failure), each failed call returns the fixed error text of its
\* adapter for that failure, its RoundEvent is a normal RoundEvent carrying
\* that text, and the debate neither aborts nor stops before the DoneEvent,
\* which is the last event.  Stated for requests with P >= 1 catalog
\* participants and R >= 1 rounds.
C2_FailuresInBand ==
    (Accepted /\ ValidRequest) =>
        /\ pc # "crashed"
        /\ (Stopped => (pc = "done" /\ Last(events) = DoneEvent))
        /\ \A j \in DOMAIN calls :
              (calls[j].round >= 1 /\ calls[j].outcome \in FailureKinds) =>
                  /\ calls[j].value = ErrorText(calls[j].model_id, calls[j].outcome)
                  /\ (pc = "done" => j <= Len(events))
                  /\ (j <= Len(events) =>
                        events[j] =
                            [type        |-> "response",
                             round       |-> calls[j].round,
                             model       |-> calls[j].model_id,
                             model_name  |-> DisplayName(calls[j].model_id),
                             color       |-> MODELS[calls[j].model_id].color,
                             response    |-> ErrorText(calls[j].model_id,
                                                       calls[j].outcome),
                             is_revision |-> calls[j].round > 1])

C2_Witness ==
    /\ pc = "done"
    /\ ValidRequest
    /\ Last(events) = DoneEvent
    /\ \E j, k \in DOMAIN calls :
          /\ calls[j].round = 1 /\ calls[j].outcome = "timeout"
          /\ calls[k].round = 2 /\ calls[k].outcome \in {"status", "exception"}
          /\ events[j].response = ErrorText(calls[j].model_id, "timeout")

----------------------------------------------------------------------------
(* C3 *)

\* C3: when request.models holds an identifier outside the catalog (and
\* R >= 1), the handler stops only with a finished stream, and that stream
\* holds for every round 1..R a RoundEvent of that identifier whose response
\* is "Unknown model: <id>".
C3_UnknownModelStream ==
    (Accepted /\ Stopped /\ request.rounds >= 1 /\ ~InCatalog) =>
        /\ pc = "done"
        /\ \A i \in DOMAIN request.models :
              request.models[i] \notin Catalog =>
                  \A r \in 1..request.rounds :
                      \E k \in DOMAIN events :
                          /\ IsRoundEvent(events[k])
                          /\ events[k].round = r
                          /\ events[k].model = request.models[i]
                          /\ events[k].response =
                                 <<"Unknown", "model:", request.models[i]>>

----------------------------------------------------------------------------
(* C4 *)

\* C4: for every request start_debate accepts, whatever its round count and
\* its participant list, the handler stops only after the ConsensusEvent and
\* then the DoneEvent were emitted.  Stated for lists of catalog identifiers.
C4_TerminalAlways ==
    (Accepted /\ Stopped /\ InCatalog) =>
        /\ pc = "done"
        /\ Len(events) >= 2
        /\ events[Len(events) - 1].type = "consensus"
        /\ events[Len(events)] = DoneEvent

----------------------------------------------------------------------------
(* C5 *)

\* C5: the k-th RoundEvent of a round is the event of the k-th entry of
\* request.models and carries the value that entry's call of that round
\* returned, in whatever order the calls of the round returned.
C5_ConfiguredOrder ==
    \A k \in DOMAIN events :
        IsRoundEvent(events[k]) =>
            LET i == ((k - 1) % NumModels) + 1
                r == ((k - 1) \div NumModels) + 1
            IN  /\ events[k].round = r
                /\ events[k].model = request.models[i]
                /\ calls[k].round = r
                /\ calls[k].pos = i
                /\ calls[k].outcome # "pending"
                /\ events[k].response = calls[k].value

\* Events of a round are out although its calls returned out of order, one
\* of them with an error text.
C5_Witness ==
    /\ overtaken
    /\ pc = "gather"
    /\ emitted >= 1
    /\ NumModels >= 2
    /\ IsRoundEvent(events[Len(events)])
    /\ events[Len(events)].round = round_num
    /\ \E i, j \in DOMAIN results : results[i] # results[j]

----------------------------------------------------------------------------
(* C6 *)

\* C6: barrier.  While a call of the current round is in flight no RoundEvent
\* of that round is in the stream, and every RoundEvent in the stream belongs
\* to a round all of whose calls have returned.
C6_Barrier ==
    /\ inflight # {} => RoundEventCount(round_num) = 0
    /\ \A k \in DOMAIN events :
          IsRoundEvent(events[k]) =>
              \A j \in DOMAIN calls :
                  calls[j].round = events[k].round => calls[j].outcome # "pending"

\* Round 2 is held back: some of its calls have returned, one is in flight,
\* and the stream holds the events of round 1 only.
C6_Witness ==
    /\ pc = "gather"
    /\ round_num = 2
    /\ inflight # {}
    /\ inflight # DOMAIN tasks
    /\ Len(events) = NumModels
    /\ RoundEventCount(2) = 0

----------------------------------------------------------------------------
(* C7 *)

\* C7: rounds never overlap.  A RoundEvent of round r > 1 comes after all P
\* RoundEvents of round r-1, and once a call of round k+1 has been started
\* every call of round k has returned and all P RoundEvents of round k are
\* in the stream.
C7_NoOverlap ==
    /\ \A k \in DOMAIN events :
          (IsRoundEvent(events[k]) /\ events[k].round > 1) =>
              Cardinality({j \in 1..(k - 1) :
                              /\ IsRoundEvent(events[j])
                              /\ events[j].round = events[k].round - 1})
                  = NumModels
    /\ \A j, k \in DOMAIN events :
          (j < k /\ IsRoundEvent(events[j]) /\ IsRoundEvent(events[k])) =>
              events[j].round <= events[k].round
    /\ \A j \in DOMAIN calls :
          calls[j].round > 1 =>
              /\ \A i \in DOMAIN calls :
                    calls[i].round = calls[j].round - 1 =>
                        calls[i].outcome # "pending"
              /\ RoundEventCount(calls[j].round - 1) = NumModels

\* Round 3 is being streamed after rounds 1 and 2 went out in full.
C7_Witness ==
    /\ round_num = 3
    /\ NumModels >= 2
    /\ pc = "gather"
    /\ emitted = 1
    /\ RoundEventCount(1) = NumModels
    /\ RoundEventCount(2) = NumModels
    /\ RoundEventCount(3) = 1

----------------------------------------------------------------------------
(* C8 *)

\* C8: when a debate over a non-empty list of catalog identifiers (repeated
\* identifiers allowed) completes, the history of every requested participant
\* has exactly R entries, and entry r is the value that participant's round-r
\* call returned, which is the response of its round-r RoundEvent.
C8_HistoryPerRound ==
    (pc = "done" /\ NumModels >= 1 /\ InCatalog) =>
        \A i \in DOMAIN request.models :
            /\ Len(all_responses[request.models[i]]) = request.rounds
            /\ \A r \in 1..request.rounds :
                  /\ all_responses[request.models[i]][r] = CallAt(r, i).value
                  /\ all_responses[request.models[i]][r] =
                         events[(r - 1) * NumModels + i].response

----------------------------------------------------------------------------
(* C9 *)

\* Position in request.models of the n-th participant other than the one at
\* position i.
OtherPos(i, n) == IF n < i THEN n ELSE n + 1

\* C9: for every round k > 1 and every participant p (identifiers distinct),
\* the prompt sent to p in round k holds p's own round-(k-1) response and,
\* for every other configured participant in configured order, that
\* participant's round-(k-1) response under its display name; it holds no
\* other response, so none of an earlier round and none of round k.
C9_RevisionPrompt ==
    Distinct(request.models) =>
        \A j \in DOMAIN calls :
            calls[j].round > 1 =>
                LET k == calls[j].round
                    i == calls[j].pos
                IN  /\ DOMAIN calls[j].messages =
                           {"context", "question", "previous", "others"}
                    /\ calls[j].messages.previous = CallAt(k - 1, i).value
                    /\ calls[j].messages.others =
                           [n \in 1..(NumModels - 1) |->
                               [label |-> DisplayName(request.models[OtherPos(i, n)]),
                                text  |-> CallAt(k - 1, OtherPos(i, n)).value]]
                    /\ \A n \in 1..(NumModels - 1) :
                           calls[j].messages.others[n].text =
                               events[(k - 2) * NumModels + OtherPos(i, n)].response

\* A round-3 prompt was built for a participant whose partner answered
\* differently in rounds 1 and 2.
C9_Witness ==
    /\ Distinct(request.models)
    /\ NumModels >= 2
    /\ \E j \in DOMAIN calls :
          /\ calls[j].round = 3
          /\ calls[j].pos = 1
          /\ CallAt(1, 2).value # CallAt(2, 2).value
          /\ calls[j].messages.others[1].text = CallAt(2, 2).value
          /\ calls[j].messages.previous # <<"N/A">>

----------------------------------------------------------------------------
(* C10 *)

\* C10: every round-1 prompt is made of the request's context and question
\* and of nothing else, so it holds no response and is the same for every
\* participant, whatever the provider calls return.
C10_FirstPrompt ==
    \A j \in DOMAIN calls :
        calls[j].round = 1 =>
            /\ calls[j].messages =
                   [context |-> request.context, question |-> request.question]
            /\ calls[j].system = SYSTEM_FIRST
            /\ \A k \in DOMAIN calls :
                  calls[k].round = 1 => calls[k].messages = calls[j].messages

\* The debate is over, its round-1 calls returned different values, and the
\* round-1 prompts are still the ones logged.
C10_Witness ==
    /\ pc = "done"
    /\ NumModels >= 2
    /\ request.rounds >= 2
    /\ CallAt(1, 1).value # CallAt(1, 2).value
    /\ CallAt(1, 1).messages = CallAt(1, 2).messages
----------------------------------------------------------------------------
(* Vocabulary of the properties of analyze_consensus *)

Contains(t, w) == \E i \in DOMAIN t : t[i] = w

\* The response of participant m that goes into the analysis.
FinalText(m) == Last(all_responses[m])

LowerTokens(t) == {lower(t[i]) : i \in DOMAIN t}

\* The lower-cased tokens every compared response holds, stop words and
\* tokens of at most 3 characters left out.
SharedTerms ==
    {w \in UNION {LowerTokens(FinalText(m)) : m \in DOMAIN all_responses} :
        /\ \A m \in DOMAIN all_responses : w \in LowerTokens(FinalText(m))
        /\ w \notin stop_words
        /\ Len(w) > 3}

\* Characters of the texts, counted by hand.
TextChars(t) ==
    CASE t = TextCat     -> 11
      [] t = TextThere   -> 15
      [] t = TextAware   -> 43
      [] t = TextCapital -> 32
      [] t = TextEleven  -> 94
      [] t = TextTen     -> 93

----------------------------------------------------------------------------
(* C11 *)

\* C11 as stated: whenever both of two compared responses hold the token
\* "consciousness", common_themes holds "consciousness", whatever else the
\* two responses share.
C11_AlwaysListed ==
    (/\ pc = "analyzed"
     /\ NumModels = 2
     /\ \A m \in DOMAIN all_responses :
            Contains(FinalText(m), "consciousness")) =>
        Contains(consensus.common_themes, "consciousness")

\* C11, amended: whenever both of two compared responses hold the token
\* "consciousness" and they share at most 10 terms that pass the filters,
\* common_themes holds "consciousness".
C11_ListedWithinCap ==
    (/\ pc = "analyzed"
     /\ NumModels = 2
     /\ \A m \in DOMAIN all_responses :
            Contains(FinalText(m), "consciousness")
     /\ Cardinality(SharedTerms) <= ThemeCap) =>
        Contains(consensus.common_themes, "consciousness")

\* Two different responses share exactly 10 terms, "consciousness" among
\* them, and it is listed.
C11_Witness ==
    /\ pc = "analyzed"
    /\ NumModels = 2
    /\ \A m \in DOMAIN all_responses : Contains(FinalText(m), "consciousness")
    /\ FinalText(request.models[1]) # FinalText(request.models[2])
    /\ Cardinality(SharedTerms) = ThemeCap
    /\ Contains(consensus.common_themes, "consciousness")

----------------------------------------------------------------------------
(* C12 *)

\* C12: common_themes has at most 10 terms; each is the lower-cased form of
\* a token of every compared response, is no stop word and is longer than 3
\* characters; it is empty when fewer than 2 participants are compared; and
\* response_lengths gives for every compared participant, and for nothing
\* else, the character length of its response.
C12_ThemesAndLengths ==
    pc = "analyzed" =>
        /\ Len(consensus.common_themes) <= 10
        /\ \A i \in DOMAIN consensus.common_themes :
              /\ \A m \in Range(request.models) :
                    \E j \in DOMAIN FinalText(m) :
                        lower(FinalText(m)[j]) = consensus.common_themes[i]
              /\ consensus.common_themes[i] \notin stop_words
              /\ Len(consensus.common_themes[i]) > 3
        /\ (NumModels < 2 => consensus.common_themes = <<>>)
        /\ DOMAIN consensus.response_lengths = Range(request.models)
        /\ \A m \in Range(request.models) :
              consensus.response_lengths[m] = TextChars(FinalText(m))

\* The cap bites: 11 terms are shared and 10 are listed, and the length of
\* a response of 94 characters is given.
C12_Witness ==
    /\ pc = "analyzed"
    /\ NumModels = 2
    /\ Cardinality(SharedTerms) = 11
    /\ Len(consensus.common_themes) = 10
    /\ consensus.response_lengths[request.models[1]] = 94
----------------------------------------------------------------------------
(* C13 *)

\* Last position of request.models that holds the identifier m.
LastPos(m) ==
    CHOOSE i \in DOMAIN request.models :
        /\ request.models[i] = m
        /\ \A j \in DOMAIN request.models : j > i => request.models[j] # m

FirstPos(m) ==
    CHOOSE i \in DOMAIN request.models :
        /\ request.models[i] = m
        /\ \A j \in DOMAIN request.models : j < i => request.models[j] # m

\* Characters of the text a call returned, counted by hand.
ReturnedChars(call) ==
    LET label == Len(ProviderLabel(call.model_id))
    IN  CASE call.outcome = "ok"        -> 6
          [] call.outcome = "timeout"   -> 29 + label
          [] call.outcome = "status"    -> 28 + label
          [] call.outcome = "exception" -> 23 + label

\* The terms to list: the shared terms when at least two participants are
\* compared.
ExpectedTerms ==
    IF Cardinality(Range(request.models)) > 1 THEN SharedTerms ELSE {}

\* The part of a finished stream that the request and the values the calls
\* returned fix: every RoundEvent, the summary, models_compared,
\* response_lengths, the DoneEvent, and which terms common_themes holds.
StreamFixedByReturns ==
    /\ Len(events) = NumModels * request.rounds + 2
    /\ \A k \in 1..(NumModels * request.rounds) :
          events[k] =
              [type        |-> "response",
               round       |-> ((k - 1) \div NumModels) + 1,
               model       |-> request.models[((k - 1) % NumModels) + 1],
               model_name  |->
                   DisplayName(request.models[((k - 1) % NumModels) + 1]),
               color       |->
                   MODELS[request.models[((k - 1) % NumModels) + 1]].color,
               response    |-> calls[k].value,
               is_revision |-> k > NumModels]
    /\ events[Len(events)] = [type |-> "done"]
    /\ LET ev == events[Len(events) - 1]
       IN  /\ DOMAIN ev = {"type", "summary", "analysis"}
           /\ ev.type = "consensus"
           /\ ev.summary = calls[Len(calls)].value
           /\ DOMAIN ev.analysis =
                  {"models_compared", "common_themes", "response_lengths"}
           /\ Range(ev.analysis.models_compared) = Range(request.models)
           /\ \A a, b \in DOMAIN ev.analysis.models_compared :
                  a < b => FirstPos(ev.analysis.models_compared[a])
                               < FirstPos(ev.analysis.models_compared[b])
           /\ DOMAIN ev.analysis.response_lengths = Range(request.models)
           /\ \A m \in Range(request.models) :
                  ev.analysis.response_lengths[m] =
                      ReturnedChars(CallAt(request.rounds, LastPos(m)))
           /\ Cardinality(ExpectedTerms) <= ThemeCap =>
                  /\ Range(ev.analysis.common_themes) = ExpectedTerms
                  /\ Len(ev.analysis.common_themes) = Cardinality(ExpectedTerms)

\* C13 as stated: a finished stream is fixed by the request and the values
\* the calls returned, the content and the order of common_themes included:
\* the list in the stream is the only list analyze_consensus can return for
\* the final responses.
C13_Deterministic ==
    pc = "done" =>
        /\ StreamFixedByReturns
        /\ \A a \in analyze_consensus(final_responses(all_responses),
                                        dict_keys(request.models)) :
              a.common_themes = events[Len(events) - 1].analysis.common_themes

\* C13, amended: a finished stream is fixed by the request and the values
\* the calls returned, except for the order of the terms of common_themes
\* (and, when more than 10 terms are shared, for which 10 are listed).
C13_DeterministicUpToThemes ==
    pc = "done" => StreamFixedByReturns

\* A finished debate of two participants whose last-round calls both timed
\* out: three terms are shared, so common_themes has more than one order.
C13_Witness ==
    /\ pc = "done"
    /\ NumModels = 2
    /\ request.models[1] # request.models[2]
    /\ CallAt(request.rounds, 1).outcome = "timeout"
    /\ CallAt(request.rounds, 2).outcome = "timeout"
    /\ Len(events[Len(events) - 1].analysis.common_themes) = 3
    /\ StreamFixedByReturns
----------------------------------------------------------------------------
(* C14 *)

\* The credential each provider family needs.
FamilyKey(model_id) ==
    CASE model_id = "claude" -> "anthropic"
      [] model_id = "gpt"    -> "openai"
      [] model_id = "gemini" -> "google"

NoCredential(model_id) ==
    /\ model_id \in {"claude", "gpt", "gemini"}
    /\ \/ FamilyKey(model_id) \notin DOMAIN request.api_keys
       \/ request.api_keys[FamilyKey(model_id)] = ""

\* C14: when some requested participant of a provider family has no entry,
\* or an empty one, in the credential mapping, the request is rejected with
\* the HTTP error and nothing else can happen: no provider call is ever
\* issued and no event is ever emitted.  And the HTTP error is only ever
\* raised that way, with no event in the stream.
C14_RejectedBeforeStream ==
    /\ (\E i \in DOMAIN request.models : NoCredential(request.models[i])) =>
          /\ pc \in {"request", "rejected"}
          /\ calls = <<>>
          /\ events = <<>>
          /\ (pc = "request" => ENABLED Reject /\ ~ENABLED Accept)
          /\ (pc = "rejected" => error = "HTTPException(400)" /\ Stopped)
    /\ error = "HTTPException(400)" =>
          /\ pc = "rejected"
          /\ events = <<>>
          /\ calls = <<>>
          /\ \E i \in DOMAIN request.models : NoCredential(request.models[i])

\* A request whose first participant has its credential and whose second
\* participant has an empty one was rejected.
C14_Witness ==
    /\ pc = "rejected"
    /\ NumModels = 2
    /\ ~NoCredential(request.models[1])
    /\ request.models[1] \in Catalog
    /\ NoCredential(request.models[2])
    /\ FamilyKey(request.models[2]) \in DOMAIN request.api_keys

----------------------------------------------------------------------------
(* C15 *)

AdapterName(model_id) ==
    CASE model_id = "claude" -> "call_claude"
      [] model_id = "gpt"    -> "call_gpt"
      [] model_id = "gemini" -> "call_gemini"

\* C15: every call of the router that has returned either was for an
\* identifier outside the three families, and then it called no adapter and
\* returned "Unknown model: <id>" as a value (gather holds it as the result
\* of the call), or it was for a family and called the adapter of that family
\* with the credential of that family, whose text it returned.
C15_Router ==
    \A j \in DOMAIN calls :
        calls[j].outcome # "pending" =>
            IF calls[j].model_id \notin {"claude", "gpt", "gemini"}
            THEN /\ calls[j].adapter = "none"
                 /\ calls[j].value = <<"Unknown", "model:", calls[j].model_id>>
                 /\ calls[j].round = round_num =>
                        results[calls[j].pos] = calls[j].value
            ELSE /\ calls[j].adapter = AdapterName(calls[j].model_id)
                 /\ calls[j].api_key =
                        request.api_keys[FamilyKey(calls[j].model_id)]
                 /\ calls[j].api_key # ""
                 /\ calls[j].outcome = "ok" => calls[j].value = <<"answer">>
                 /\ calls[j].outcome \in FailureKinds =>
                        calls[j].value =
                            ErrorText(calls[j].model_id, calls[j].outcome)

\* In one round the router was called for an unknown identifier and for
\* gemini; both calls returned.
C15_Witness ==
    /\ pc = "gather"
    /\ inflight = {}
    /\ \E j, k \in DOMAIN calls :
          /\ calls[j].model_id = "grok"
          /\ calls[j].value = <<"Unknown", "model:", "grok">>
          /\ calls[k].model_id = "gemini"
          /\ calls[k].adapter = "call_gemini"
          /\ calls[k].api_key = "sk-google"
          /\ calls[k].outcome = "ok"
----------------------------------------------------------------------------
(* C16 *)

\* The summary calls in the log.
SummaryCalls == {j \in DOMAIN calls : calls[j].round = 0}

\* C16: in a debate of P >= 1 distinct catalog participants and R >= 1
\* rounds there is never more than one summary call and, from the end of the
\* rounds on, exactly one.  It is logged after all P*R round calls, when all
\* P RoundEvents of round R are in the stream; it goes to request.models[0]
\* with the analyst instruction and a prompt that lists, in configured
\* order, every participant's display name with the value its round-R call
\* returned.  While it is pending no ConsensusEvent is in the stream; once
\* it has returned, the ConsensusEvent follows the RoundEvents and carries
\* the returned value as summary, which for a failed call is the adapter's
\* error text, and the stream goes on to the DoneEvent.
C16_SummaryCall ==
    (Accepted /\ ValidRequest /\ Distinct(request.models)) =>
        /\ Cardinality(SummaryCalls) <= 1
        /\ pc \in {"summary", "consensus_sent", "done"} =>
              Cardinality(SummaryCalls) = 1
        /\ \A k \in DOMAIN events :
              events[k].type = "consensus" =>
                  \E j \in SummaryCalls : calls[j].outcome # "pending"
        /\ \A j \in SummaryCalls :
              /\ j = NumModels * request.rounds + 1
              /\ RoundEventCount(request.rounds) = NumModels
              /\ Len(events) >= NumModels * request.rounds
              /\ calls[j].model_id = request.models[1]
              /\ calls[j].system = SYSTEM_SUMMARY
              /\ calls[j].messages =
                     [question  |-> request.question,
                      responses |->
                          [i \in 1..NumModels |->
                              [label |-> DisplayName(request.models[i]),
                               text  |-> CallAt(request.rounds, i).value]]]
              /\ calls[j].outcome = "pending" =>
                     /\ pc = "summary"
                     /\ Len(events) = NumModels * request.rounds
              /\ calls[j].outcome # "pending" =>
                     /\ Len(events) > NumModels * request.rounds
                     /\ events[NumModels * request.rounds + 1] =
                            [type     |-> "consensus",
                             summary  |-> calls[j].value,
                             analysis |-> consensus]
                     /\ \/ pc = "consensus_sent" /\ ENABLED EmitDone
                        \/ /\ pc = "done"
                           /\ events[NumModels * request.rounds + 2] = DoneEvent
              /\ calls[j].outcome \in FailureKinds =>
                     calls[j].value =
                         ErrorText(request.models[1], calls[j].outcome)

\* A debate of two participants and two rounds or more is over; its
\* summary call timed out and the ConsensusEvent carries the timeout text of
\* the first participant's adapter; the last-round responses differ from
\* each other, and the second participant's from its first-round response.
C16_Witness ==
    /\ pc = "done"
    /\ NumModels = 2
    /\ Distinct(request.models)
    /\ request.rounds >= 2
    /\ \E j \in SummaryCalls :
          /\ calls[j].outcome = "timeout"
          /\ events[Len(events) - 1].summary =
                 ErrorText(request.models[1], "timeout")
    /\ CallAt(request.rounds, 1).value # CallAt(request.rounds, 2).value
    /\ CallAt(1, 2).value # CallAt(request.rounds, 2).value
----------------------------------------------------------------------------
(* C17 *)

\* The calls of round r in the log.
RoundCalls(r) == {j \in DOMAIN calls : calls[j].round = r}

\* C17: the calls of a round are started together: as soon as one call of a
\* round is in the log all P are, and until the first of them returns all P
\* are in flight.  And no call is lost: in the round being gathered every
\* call is either in flight or has returned and gather holds its value, and
\* a call in flight beside a sibling that returned an error text is still
\* able to return; every RoundEvent in the stream carries the value its own
\* call returned; and once the RoundEvents of a round are out every call of
\* that round has returned.
C17_FanOut ==
    /\ \A r \in {calls[j].round : j \in DOMAIN calls} \ {0} :
          Cardinality(RoundCalls(r)) = NumModels
    /\ pc = "gather" =>
          /\ (\A j \in RoundCalls(round_num) : calls[j].outcome = "pending")
                 => inflight = 1..NumModels
          /\ \A i \in 1..NumModels :
                IF CallAt(round_num, i).outcome = "pending"
                THEN /\ i \in inflight
                     /\ (\E k \in 1..NumModels : IsErrorText(results[k]))
                            => ENABLED CallReturn(i)
                ELSE /\ i \notin inflight
                     /\ results[i] = CallAt(round_num, i).value
    /\ \A k \in DOMAIN events :
          IsRoundEvent(events[k]) =>
              /\ calls[k].outcome # "pending"
              /\ calls[k].model_id = events[k].model
              /\ calls[k].round = events[k].round
              /\ events[k].response = calls[k].value
              /\ Distinct(request.models) =>
                     all_responses[events[k].model][events[k].round] =
                         calls[k].value
    /\ \A r \in 1..(round_num - 1) :
          \A j \in RoundCalls(r) : calls[j].outcome # "pending"

\* All calls of round 2 are in flight at once, after a round 1 in which the
\* first participant's call timed out and the second one's returned its
\* answer, which was emitted.
C17_Witness ==
    /\ pc = "gather"
    /\ round_num = 2
    /\ NumModels >= 2
    /\ inflight = 1..NumModels
    /\ CallAt(1, 1).outcome = "timeout"
    /\ CallAt(1, 2).outcome = "ok"
    /\ events[2].response = <<"answer">>

----------------------------------------------------------------------------
(* C18 *)

\* C18: once a call of round k has raised, the generator is dead and stays
\* so: the stream holds the RoundEvents of the rounds before k and nothing
\* else, so no RoundEvent of round k (whatever the other calls of round k
\* returned), no ConsensusEvent and no DoneEvent; no call of a later round
\* and no summary call was made; and no further step is possible.
C18_RaiseAbortsRound ==
    \A j \in DOMAIN calls :
        calls[j].outcome = "raised" =>
            /\ pc = "crashed"
            /\ error = "AdapterRaised"
            /\ round_num = calls[j].round
            /\ RoundEventCount(calls[j].round) = 0
            /\ Len(events) = NumModels * (calls[j].round - 1)
            /\ \A k \in DOMAIN events :
                  IsRoundEvent(events[k]) /\ events[k].round < calls[j].round
            /\ \A k \in DOMAIN calls :
                  calls[k].round \in 1..calls[j].round
            /\ ~ENABLED NextRaise

\* A call of round 2 raised after another call of round 2 had returned its
\* answer: the stream holds the events of round 1 only.
C18_Witness ==
    /\ error = "AdapterRaised"
    /\ round_num = 2
    /\ NumModels >= 2
    /\ Len(events) = NumModels
    /\ \E j, k \in RoundCalls(2) :
          /\ calls[j].outcome = "raised"
          /\ calls[k].outcome = "ok"
          /\ results[calls[k].pos] = <<"answer">>
----------------------------------------------------------------------------
(* C19 *)

\* C19: the router is called at most once for each participant position of
\* each round and at most once for the summary, so at most P*R + 1 times; a
\* call that has returned, with an error text or not, is not in flight
\* again; and a completed debate has made exactly P*R + 1 calls: one for
\* every position of every round and one for the summary.
C19_NoRetries ==
    /\ Cardinality({<<calls[j].round, calls[j].pos>> : j \in DOMAIN calls})
          = Len(calls)
    /\ \A j \in DOMAIN calls :
          \/ calls[j].round = 0 /\ calls[j].pos = 0
          \/ /\ calls[j].round \in 1..request.rounds
             /\ calls[j].pos \in 1..NumModels
             /\ calls[j].model_id = request.models[calls[j].pos]
    /\ Len(calls) <= NumModels * request.rounds + 1
    /\ \A i \in inflight : CallAt(round_num, i).outcome = "pending"
    /\ pc = "done" =>
          /\ Len(calls) = NumModels * request.rounds + 1
          /\ Cardinality(SummaryCalls) = 1
          /\ \A r \in 1..request.rounds :
                \A i \in 1..NumModels :
                    \E j \in DOMAIN calls :
                        calls[j].round = r /\ calls[j].pos = i

\* A debate of two participants and two rounds or more is over after calls
\* of round 1 and of round 2 failed, with P*R + 1 calls in the log.
C19_Witness ==
    /\ pc = "done"
    /\ NumModels = 2
    /\ request.rounds >= 2
    /\ CallAt(1, 1).outcome \in FailureKinds
    /\ CallAt(2, 2).outcome \in FailureKinds
    /\ Len(calls) = NumModels * request.rounds + 1
----------------------------------------------------------------------------
(* C20 *)

\* C20: when the prompts of round k have just been built (the calls of the
\* round are handed to gather and none of its results is recorded yet), the
\* history of every configured participant has exactly k-1 entries; and in
\* every prompt of a round k > 1 the own previous response is a response,
\* not the placeholder 'N/A', and every configured participant with another
\* identifier is listed among the others.
C20_HistoryAtPromptBuild ==
    /\ (pc = "gather" /\ emitted = 0) =>
          \A i \in DOMAIN request.models :
              Len(all_responses[request.models[i]]) = round_num - 1
    /\ \A j \in DOMAIN calls :
          calls[j].round > 1 =>
              /\ calls[j].messages.previous # <<"N/A">>
              /\ Len(calls[j].messages.others) =
                     Cardinality({n \in DOMAIN request.models :
                                     request.models[n] # calls[j].model_id})
====
